---- MODULE Spec2Model ----
\* Micropad firmware (XIAO RP2040): debounced switch interrupts, the
\* EC11 quadrature decoder and its button, the 500 ms status poll
\* loop that shares state with the interrupt handlers, and the USB HID
\* media dispatcher; the Display wrapper and the SSD1306 driver with its
\* page-organised framebuffer, flush and 5x8 text rendering.
\*
\* Time: `now` counts real milliseconds since the tick counter's origin;
\* time.ticks_ms() is the wrapping counter  now % TicksPeriod.  The real
\* period (2^30 on this port) is scaled down so that a wrap is reachable.
EXTENDS Integers, Sequences, FiniteSets, TLC

\* ------------------------------------------------------------------
\* Program constants
\* ------------------------------------------------------------------
DEBOUNCE_TIME == 20

ENCODER_DEBOUNCE_TIME == 2

BUTTON_DEBOUNCE_TIME == 50

DISPLAY_UPDATE_MS == 500

POLL_SLEEP_MS == 50

SWITCH_PINS == {"switch_1", "switch_2"}

HID_HOLD_MS == 50

VOLUME_UP == 233

VOLUME_DOWN == 234

VOLUME_MUTE == 226

PLAY_PAUSE == 205

NEXT_TRACK == 181

PREV_TRACK == 182

\* SSD1306 commands
CONTRAST == 129

ENTIRE_ON == 164

NORMAL == 166

DISPLAY_OFF == 174

DISPLAY_ON == 175

SETPAGE == 176

SET_START_LINE == 64

\* Character width + spacing of SSD1306.text
CHAR_ADVANCE == 6

\* ------------------------------------------------------------------
\* Bounds of the model
\* ------------------------------------------------------------------
TicksPeriod == 512

MaxAdvances == 3

\* The panel of the byte-level driver model: width in pixels and number of
\* 8-pixel pages (the device has 128 x 64 pixels, 8 pages).
FbWidth == 6

FbPages == 2

\* Drawing operations applied to a buffer since it was last uniform.
MaxDraws == 2

\* Idle periods in a run with every interrupt source active.
MaxIrqAdvances == 2

\* Largest magnitude of the encoder values handed to show_status.
MaxEncoderValue == 60

\* Idle periods between events, in ms, for the switch / poll-loop system.
StepsSwitch == {1, 19, 20, DISPLAY_UPDATE_MS + 1}

\* Idle periods between events, in ms, for the encoder system.
StepsEnc == {1, 10, 50, DISPLAY_UPDATE_MS + 1}

VARIABLES
    now,                 \* real elapsed ms (history; the code only sees Ticks)
    advances,            \* number of idle periods so far (bounded)
    last_press_time,     \* SwitchHandler.last_press_time[name]
    states,              \* SwitchHandler.states[name]
    accept_real,         \* history: real time of the last accepted press, -1 if none
    accept_gap,          \* history: real ms between the last two accepted presses, -1 if none
    last_display_update, \* main.last_display_update
    pc,                  \* position of the main loop
    active_keys,         \* update_display's local active_keys
    slept,               \* ms spent in the current time.sleep(0.05), saturating
    display_initialized, \* Display.initialized
    fb,                  \* what the framebuffer holds
    fb_ctx,              \* context of the last framebuffer write
    bus_ctx,             \* context of the last display bus write
    clk, dt, sw,         \* levels of the encoder pins CLK (A), DT (B), SW
    last_clk, last_dt,   \* EC11Encoder.last_clk / last_dt
    last_sw,             \* EC11Encoder.last_sw
    last_interrupt_time, \* EC11Encoder.last_interrupt_time
    button_press_time,   \* EC11Encoder.button_press_time
    button_accept_real,  \* history: real time of the edge button_press_time records
    encoder_value,       \* main.encoder_value
    enabled,             \* MediaControl.enabled
    keyboard,            \* MediaControl.keyboard is a device (TRUE) or unset/None
    has_send, has_write, \* the device has a send() / a write() method
    hid_call,            \* history: the dispatcher call made by the last step
    buf,                 \* SSD1306.buf, byte i of the bytearray at buf[i + 1]
    bus,                 \* history: the I2C frames the last driver operation wrote
    bus_first,           \* history: the first I2C frame written to the display
    fb_op,               \* history: the last driver operation, with the buffer before it
    draws,               \* drawing operations since the buffer was last uniform (bounded)
    ev                   \* history: the interrupt served by the last step

vars == <<now, advances, last_press_time, states, accept_real, accept_gap,
          last_display_update, pc, active_keys, slept,
          display_initialized, fb, fb_ctx, bus_ctx,
          clk, dt, sw, last_clk, last_dt, last_sw, last_interrupt_time,
          button_press_time, button_accept_real, encoder_value,
          enabled, keyboard, has_send, has_write, hid_call,
          buf, bus, bus_first, fb_op, draws, ev>>

switchVars == <<last_press_time, states, accept_real, accept_gap>>
pollVars == <<last_display_update, pc, active_keys, slept>>
displayVars == <<display_initialized, fb, fb_ctx, bus_ctx>>
pinVars == <<clk, dt, sw>>
encVars == <<last_clk, last_dt, last_sw, last_interrupt_time, button_press_time,
             button_accept_real>>
hidVars == <<enabled, keyboard, has_send, has_write>>
fbVars == <<buf, bus, bus_first, fb_op, draws>>

\* time.ticks_ms(): the wrapping millisecond counter.
Ticks == now % TicksPeriod

NoEvent == [kind |-> "none"]

NoCall == [action |-> "none"]

NoOp == [name |-> "none"]

\* No SSD1306 object.  The systems that see the display only as a whole
\* stay here: they do not follow the driver byte by byte.
NoDriver ==
    /\ buf = <<>>
    /\ bus = <<>>
    /\ bus_first = <<>>
    /\ fb_op = NoOp
    /\ draws = 0

\* ------------------------------------------------------------------
\* Display (high level): every operation clears, draws and flushes.
\* ------------------------------------------------------------------
\* Display.show_key_press(key_name), entered from context ctx.
ShowKeyPress(ctx) ==
    IF ~display_initialized
    THEN UNCHANGED <<fb, fb_ctx, bus_ctx>>
    ELSE /\ fb' = "key_press"
         /\ fb_ctx' = ctx
         /\ bus_ctx' = ctx

\* Display.show_welcome(), entered from context ctx.
ShowWelcome(ctx) ==
    IF ~display_initialized
    THEN UNCHANGED <<fb, fb_ctx, bus_ctx>>
    ELSE /\ fb' = "welcome"
         /\ fb_ctx' = ctx
         /\ bus_ctx' = ctx

\* Display.show_debug_info(info_dict), entered from context ctx.
ShowDebugInfo(ctx) ==
    IF ~display_initialized
    THEN UNCHANGED <<fb, fb_ctx, bus_ctx>>
    ELSE /\ fb' = "debug"
         /\ fb_ctx' = ctx
         /\ bus_ctx' = ctx

\* Display.clear(): self.oled.clear() zeroes the buffer and flushes it.
DisplayClear(ctx) ==
    IF display_initialized
    THEN /\ fb' = "blank"
         /\ fb_ctx' = ctx
         /\ bus_ctx' = ctx
    ELSE UNCHANGED <<fb, fb_ctx, bus_ctx>>

\* Mutation: show_status without its `if not self.initialized: return`.
ShowStatusUnguarded(ctx) ==
    /\ fb' = "status"
    /\ fb_ctx' = ctx
    /\ bus_ctx' = ctx

\* Display.show_status(encoder_value, active_keys), entered from context ctx.
ShowStatus(ctx) ==
    IF ~display_initialized
    THEN UNCHANGED <<fb, fb_ctx, bus_ctx>>
    ELSE /\ fb' = "status"
         /\ fb_ctx' = ctx
         /\ bus_ctx' = ctx

\* ------------------------------------------------------------------
\* Switches
\* ------------------------------------------------------------------
\* init_switches(on_switch_press) registers the callback for every switch.
press_callbacks == SWITCH_PINS

\* Mutation: the window is one tick short.
SwitchBounceShort(current_time, last) == current_time - last < DEBOUNCE_TIME - 1

\* The debounce check of _handle_switch_press: TRUE when the edge is dropped.
SwitchBounce(current_time, last) == current_time - last < DEBOUNCE_TIME

\* Mutation: the handler toggles the flag instead of setting it.
SetActiveToggle(s) == [states EXCEPT ![s] = ~states[s]]

\* self.states[switch_name] = True
SetActive(s) == [states EXCEPT ![s] = TRUE]

\* on_switch_press(switch_name): runs inside the interrupt handler.
OnSwitchPress(s) ==
    IF display_initialized
    THEN ShowKeyPress("irq")
    ELSE UNCHANGED <<fb, fb_ctx, bus_ctx>>

\* Falling-edge interrupt of switch s: SwitchHandler._handle_switch_press.
HandleSwitchPress(s) ==
    LET current_time == Ticks IN
    /\ IF SwitchBounce(current_time, last_press_time[s])
       THEN /\ UNCHANGED <<switchVars, fb, fb_ctx, bus_ctx>>
            /\ ev' = [kind |-> "switch", name |-> s, accepted |-> FALSE]
       ELSE /\ last_press_time' = [last_press_time EXCEPT ![s] = current_time]
            /\ states' = SetActive(s)
            /\ accept_real' = [accept_real EXCEPT ![s] = now]
            /\ accept_gap' = [accept_gap EXCEPT ![s] =
                                 IF accept_real[s] < 0 THEN -1 ELSE now - accept_real[s]]
            /\ IF s \in press_callbacks
               THEN OnSwitchPress(s)
               ELSE UNCHANGED <<fb, fb_ctx, bus_ctx>>
            /\ ev' = [kind |-> "switch", name |-> s, accepted |-> TRUE]
    /\ UNCHANGED <<now, advances, pollVars, display_initialized,
                   pinVars, encVars, encoder_value, hidVars, fbVars, hid_call>>

SwitchIrq == \E s \in SWITCH_PINS : HandleSwitchPress(s)

\* SwitchHandler.get_active_switches()
GetActiveSwitches == {s \in SWITCH_PINS : states[s]}

\* SwitchHandler.reset_states()
ResetStates == states' = [s \in SWITCH_PINS |-> FALSE]

\* ------------------------------------------------------------------
\* Main loop: while True: update_display(); time.sleep(0.05)
\* ------------------------------------------------------------------
\* update_display up to and including the read of the active switches.
PollCheck ==
    /\ pc = "poll"
    /\ LET current_time == Ticks IN
       IF current_time - last_display_update > DISPLAY_UPDATE_MS
       THEN /\ last_display_update' = current_time
            /\ IF display_initialized
               THEN /\ active_keys' = GetActiveSwitches
                    /\ pc' = "show"
               ELSE /\ pc' = "sleep"
                    /\ UNCHANGED active_keys
       ELSE /\ pc' = "sleep"
            /\ UNCHANGED <<last_display_update, active_keys>>
    /\ slept' = 0
    /\ ev' = NoEvent
    /\ UNCHANGED <<now, advances, switchVars, displayVars,
                   pinVars, encVars, encoder_value, hidVars, fbVars, hid_call>>

\* update_display: display.show_status(encoder_value, active_keys).
PollShow ==
    /\ pc = "show"
    /\ ShowStatus("poll")
    /\ pc' = "reset"
    /\ ev' = NoEvent
    /\ UNCHANGED <<now, advances, switchVars, last_display_update,
                   active_keys, slept, display_initialized,
                   pinVars, encVars, encoder_value, hidVars, fbVars, hid_call>>

\* update_display: switch_handler.reset_states().
PollReset ==
    /\ pc = "reset"
    /\ ResetStates
    /\ pc' = "sleep"
    /\ slept' = 0
    /\ ev' = NoEvent
    /\ UNCHANGED <<now, advances, last_press_time, accept_real, accept_gap,
                   last_display_update, active_keys, displayVars,
                   pinVars, encVars, encoder_value, hidVars, fbVars, hid_call>>

\* time.sleep(0.05) returns.
PollWake ==
    /\ pc = "sleep"
    /\ slept >= POLL_SLEEP_MS
    /\ pc' = "poll"
    /\ ev' = NoEvent
    /\ UNCHANGED <<now, advances, switchVars, last_display_update,
                   active_keys, slept, displayVars,
                   pinVars, encVars, encoder_value, hidVars, fbVars, hid_call>>

\* ------------------------------------------------------------------
\* Passage of time
\* ------------------------------------------------------------------
Min(a, b) == IF a < b THEN a ELSE b

Advance(d) ==
    /\ advances < MaxAdvances
    /\ now' = now + d
    /\ advances' = advances + 1
    /\ slept' = IF pc = "sleep" THEN Min(slept + d, POLL_SLEEP_MS) ELSE slept
    /\ ev' = NoEvent
    /\ hid_call' = NoCall
    /\ UNCHANGED <<switchVars, last_display_update, pc, active_keys, displayVars,
                   pinVars, encVars, encoder_value, hidVars, fbVars>>

AdvanceSwitch == \E d \in StepsSwitch : Advance(d)

\* ------------------------------------------------------------------
\* USB HID media dispatcher (hid_control.MediaControl)
\* ------------------------------------------------------------------
\* What one call of a transport primitive does: "ok" (report written),
\* "err" (raises an exception other than AttributeError), or "attr"
\* (the device has no such method: AttributeError).
SendOutcomes == IF has_send THEN {"ok", "err"} ELSE {"attr"}

WriteOutcomes == IF has_write THEN {"ok", "err"} ELSE {"attr"}

\* Outcomes of the two send() calls and the two write() calls of one command.
TransportOutcomes ==
    [s1 : SendOutcomes, s2 : SendOutcomes, w1 : WriteOutcomes, w2 : WriteOutcomes]

\* Mutation: low and high byte of the usage code swapped.
ReportSwapped(code) == <<(code \div 256) % 256, code % 256, 0>>

\* bytes([code & 0xFF, (code >> 8) & 0xFF, 0])
Report(code) == <<code % 256, (code \div 256) % 256, 0>>

\* bytes([0, 0, 0])
ReleaseReport == <<0, 0, 0>>

Wrote(via, report) == [via |-> via, report |-> report]

\* The except AttributeError branch of _send_media_command: write() fallback.
\* done: the writes made so far; held: ms already slept.
WriteFallback(code, o, done, held) ==
    IF o.w1 # "ok"
    THEN [writes |-> done, delay |-> held, raised |-> FALSE]
    ELSE IF o.w2 # "ok"
         THEN [writes |-> Append(done, Wrote("write", Report(code))),
               delay |-> held + HID_HOLD_MS, raised |-> FALSE]
         ELSE [writes |-> done \o <<Wrote("write", Report(code)),
                                    Wrote("write", ReleaseReport)>>,
               delay |-> held + HID_HOLD_MS, raised |-> FALSE]

\* MediaControl._send_media_command(code) under transport outcomes o.
SendMediaCommand(code, o) ==
    IF ~enabled \/ ~keyboard
    THEN [writes |-> <<>>, delay |-> 0, raised |-> FALSE]
    ELSE IF o.s1 = "attr"
         THEN WriteFallback(code, o, <<>>, 0)
         ELSE IF o.s1 = "err"
              THEN [writes |-> <<>>, delay |-> 0, raised |-> FALSE]
              ELSE LET pressed == <<Wrote("send", Report(code))>> IN
                   IF o.s2 = "attr"
                   THEN WriteFallback(code, o, pressed, HID_HOLD_MS)
                   ELSE IF o.s2 = "err"
                        THEN [writes |-> pressed, delay |-> HID_HOLD_MS,
                              raised |-> FALSE]
                        ELSE [writes |-> Append(pressed, Wrote("send", ReleaseReport)),
                              delay |-> HID_HOLD_MS, raised |-> FALSE]

\* The common body of the six action methods: the enabled check, then
\* try: _send_media_command(code); return True / except: return False.
ActionMethod(name, code, o) ==
    IF ~enabled
    THEN [action |-> name, code |-> code, outcome |-> o,
          ret |-> FALSE, writes |-> <<>>, delay |-> 0]
    ELSE LET r == SendMediaCommand(code, o) IN
         [action |-> name, code |-> code, outcome |-> o,
          ret |-> IF r.raised THEN FALSE ELSE TRUE,
          writes |-> r.writes, delay |-> r.delay]

VolumeUp(o) == ActionMethod("volume_up", VOLUME_UP, o)

VolumeDown(o) == ActionMethod("volume_down", VOLUME_DOWN, o)

VolumeMute(o) == ActionMethod("volume_mute", VOLUME_MUTE, o)

PlayPause(o) == ActionMethod("play_pause", PLAY_PAUSE, o)

NextTrack(o) == ActionMethod("next_track", NEXT_TRACK, o)

PrevTrack(o) == ActionMethod("prev_track", PREV_TRACK, o)

\* MediaControl.__init__: disabled without a device; enabled with the
\* device found; disabled with the device already stored when the
\* constructor's try block raised late.
MediaControlConstructed ==
    /\ enabled \in BOOLEAN
    /\ keyboard \in BOOLEAN
    /\ enabled => keyboard
    /\ has_send \in BOOLEAN
    /\ has_write \in BOOLEAN
    /\ ~keyboard => (~has_send /\ ~has_write)
    /\ hid_call = NoCall

\* ------------------------------------------------------------------
\* EC11 encoder
\* ------------------------------------------------------------------
\* main() passes on_encoder_rotate and on_encoder_button to EC11Encoder.
callback_rotate == TRUE

callback_button == TRUE

\* EC11Encoder.__init__, with the encoder resting at a detent and the
\* button released (all three pins pulled high).
EncoderConstructed ==
    /\ clk = 1 /\ dt = 1 /\ sw = 1
    /\ last_clk = clk
    /\ last_dt = dt
    /\ last_sw = sw
    /\ last_interrupt_time = 0
    /\ button_press_time = 0
    /\ button_accept_real = 0

\* Mutation: no rotation edge is ever dropped.
RotationBounceNever(current_time, last) == FALSE

\* The debounce check of _handle_rotation: TRUE when the edge is dropped.
RotationBounce(current_time, last) == current_time - last < ENCODER_DEBOUNCE_TIME

\* The debounce check of _handle_button: TRUE when the edge is dropped.
ButtonBounce(current_time, last) == current_time - last < BUTTON_DEBOUNCE_TIME

\* Mutation: the two directions exchanged.
DirectionSwapped(dt_val) == IF dt_val = 1 THEN -1 ELSE 1

\* Direction by the level of DT at a falling CLK.
Direction(dt_val) == IF dt_val = 1 THEN 1 ELSE -1

\* The arguments of the callback_rotate calls one accepted interrupt makes.
RotationCalls(clk_val, dt_val, prev_clk) ==
    IF clk_val # prev_clk /\ clk_val = 0 /\ callback_rotate
    THEN <<Direction(dt_val)>>
    ELSE <<>>

\* Mutation: a tick counted twice.
AccumulateTwice(value, direction) == value + 2 * direction

\* encoder_value += direction
Accumulate(value, direction) == value + direction

\* Mutation: every tick turns the volume up.
VolumeForAlwaysUp(direction, o) == VolumeUp(o)

\* The dispatcher method on_encoder_rotate picks:
\* if direction > 0: volume_up() else: volume_down()
VolumeFor(direction, o) == IF direction > 0 THEN VolumeUp(o) ELSE VolumeDown(o)

\* on_encoder_rotate(direction), with the dispatcher call it makes; the
\* dispatcher's hold blocks the handler, so time passes inside it.
OnEncoderRotate(direction) ==
    /\ encoder_value' = Accumulate(encoder_value, direction)
    /\ IF enabled
       THEN \E o \in TransportOutcomes :
              LET call == VolumeFor(direction, o) IN
              /\ hid_call' = call
              /\ now' = now + call.delay
              /\ advances' = advances + (IF call.delay > 0 THEN 1 ELSE 0)
              /\ advances' <= MaxAdvances
       ELSE /\ hid_call' = NoCall
            /\ UNCHANGED <<now, advances>>

\* on_encoder_button()
OnEncoderButton == encoder_value' = 0

\* Edge (rising or falling) on CLK: EC11Encoder._handle_rotation.
HandleRotation ==
    LET current_time == Ticks
        clk_val == 1 - clk
        dt_val == dt
        edge == IF clk_val = 0 THEN "falling" ELSE "rising"
    IN
    /\ clk' = clk_val
    /\ IF RotationBounce(current_time, last_interrupt_time)
       THEN /\ UNCHANGED <<now, advances, last_interrupt_time, last_clk, last_dt,
                           encoder_value>>
            /\ hid_call' = NoCall
            /\ ev' = [kind |-> "rotation", accepted |-> FALSE, edge |-> edge,
                      calls |-> <<>>]
       ELSE LET calls == RotationCalls(clk_val, dt_val, last_clk) IN
            /\ last_interrupt_time' = current_time
            /\ IF calls = <<>>
               THEN /\ UNCHANGED <<now, advances, encoder_value>>
                    /\ hid_call' = NoCall
               ELSE OnEncoderRotate(calls[1])
            /\ last_clk' = clk_val
            /\ last_dt' = dt_val
            /\ ev' = [kind |-> "rotation", accepted |-> TRUE, edge |-> edge,
                      calls |-> calls]
    /\ UNCHANGED <<dt, sw, last_sw, button_press_time, button_accept_real,
                   hidVars, fbVars, switchVars, pollVars, displayVars>>

\* DT changes level; no interrupt is attached to DT.
DtChange ==
    /\ dt' = 1 - dt
    /\ ev' = NoEvent
    /\ hid_call' = NoCall
    /\ UNCHANGED <<now, advances, clk, sw, encVars, encoder_value, hidVars, fbVars,
                   switchVars, pollVars, displayVars>>

\* Falling edge on SW: EC11Encoder._handle_button.  sw_val is the level
\* the handler samples (a bouncing contact may read high again).
HandleButton(sw_val) ==
    LET current_time == Ticks IN
    /\ sw = 1
    /\ sw' = sw_val
    /\ IF ButtonBounce(current_time, button_press_time)
       THEN /\ UNCHANGED <<button_press_time, button_accept_real, encoder_value>>
            /\ ev' = [kind |-> "button", accepted |-> FALSE, called |-> FALSE,
                      before |-> encoder_value]
       ELSE /\ button_press_time' = current_time
            /\ button_accept_real' = now
            /\ IF sw_val = 0 /\ callback_button
               THEN OnEncoderButton
               ELSE UNCHANGED encoder_value
            /\ ev' = [kind |-> "button", accepted |-> TRUE,
                      called |-> (sw_val = 0 /\ callback_button),
                      before |-> encoder_value]
    /\ hid_call' = NoCall
    /\ UNCHANGED <<now, advances, clk, dt, last_clk, last_dt, last_sw,
                   last_interrupt_time, hidVars, fbVars, switchVars, pollVars, displayVars>>

ButtonIrq == \E sw_val \in {0, 1} : HandleButton(sw_val)

\* The button is released: SW rises, which raises no interrupt.
ButtonRelease ==
    /\ sw = 0
    /\ sw' = 1
    /\ ev' = NoEvent
    /\ hid_call' = NoCall
    /\ UNCHANGED <<now, advances, clk, dt, encVars, encoder_value, hidVars, fbVars,
                   switchVars, pollVars, displayVars>>

AdvanceEnc == \E d \in StepsEnc : Advance(d)

\* ------------------------------------------------------------------
\* SSD1306 driver (display.SSD1306), byte level, for a panel of
\* FbWidth x FbHeight pixels
\* ------------------------------------------------------------------
FbHeight == 8 * FbPages

\* self.pages = height // 8
Pages == FbHeight \div 8

\* The coordinates of the panel's pixels.
Columns == 0..(FbWidth - 1)

Rows == 0..(FbHeight - 1)

\* Bitwise a | b and a & b of non-negative integers.
RECURSIVE BitOr(_, _)
BitOr(a, b) ==
    IF a = 0 THEN b
    ELSE IF b = 0 THEN a
    ELSE (IF a % 2 = 1 \/ b % 2 = 1 THEN 1 ELSE 0) + 2 * BitOr(a \div 2, b \div 2)

RECURSIVE BitAnd(_, _)
BitAnd(a, b) ==
    IF a = 0 \/ b = 0 THEN 0
    ELSE (IF a % 2 = 1 /\ b % 2 = 1 THEN 1 ELSE 0) + 2 * BitAnd(a \div 2, b \div 2)

\* bytearray(self.pages * width)
BlankBuffer == [i \in 1..(Pages * FbWidth) |-> 0]

\* bytearray([fill_byte] * len(self.buf))
FilledBuffer(color) == [i \in 1..(Pages * FbWidth) |-> IF color # 0 THEN 255 ELSE 0]

\* self.buf[index] |= (1 << bit)
SetBit(byte, bit) == BitOr(byte, 2 ^ bit)

\* Mutation: the complement of the mask forgotten.
ClearBitNoComplement(byte, bit) == BitAnd(byte, 2 ^ bit)

\* self.buf[index] &= ~(1 << bit); on a byte, ~(1 << bit) acts as the
\* mask 255 - (1 << bit).
ClearBit(byte, bit) == BitAnd(byte, 255 - 2 ^ bit)

\* Mutation: the range check lost its lower bounds.
PixelNoLowerBound(b, x, y, state) ==
    LET index == (y \div 8) * FbWidth + x
        bit == y % 8
    IN IF ~(x < FbWidth /\ y < FbHeight) \/ index + 1 \notin DOMAIN b
       THEN b
       ELSE [b EXCEPT ![index + 1] =
                IF state # 0 THEN SetBit(@, bit) ELSE ClearBit(@, bit)]

\* SSD1306.pixel(x, y, state) applied to buffer b.
Pixel(b, x, y, state) ==
    IF ~(0 <= x /\ x < FbWidth /\ 0 <= y /\ y < FbHeight)
    THEN b
    ELSE LET page == y \div 8
             bit == y % 8
             index == page * FbWidth + x
         IN [b EXCEPT ![index + 1] =
                IF state # 0 THEN SetBit(@, bit) ELSE ClearBit(@, bit)]

\* The calls pixel(calls[lo]), .., pixel(calls[hi]), all with one state,
\* made one after the other on buffer b (evaluated by halves).
RECURSIVE PixelRun(_, _, _, _, _)
PixelRun(b, calls, lo, hi, state) ==
    IF lo > hi THEN b
    ELSE IF lo = hi THEN Pixel(b, calls[lo][1], calls[lo][2], state)
    ELSE LET mid == (lo + hi) \div 2
         IN PixelRun(PixelRun(b, calls, lo, mid, state), calls, mid + 1, hi, state)

\* range(n) as the sequence 0, .., n - 1 (empty for n <= 0).
Range(n) == [i \in 1..n |-> i - 1]

\* SSD1306.hline: for i in range(width): self.pixel(x + i, y, color)
Hline(b, x, y, width, color) ==
    LET calls == [k \in 1..Len(Range(width)) |-> <<x + Range(width)[k], y>>]
    IN PixelRun(b, calls, 1, Len(calls), color)

\* SSD1306.vline: for i in range(height): self.pixel(x, y + i, color)
Vline(b, x, y, height, color) ==
    LET calls == [k \in 1..Len(Range(height)) |-> <<x, y + Range(height)[k]>>]
    IN PixelRun(b, calls, 1, Len(calls), color)

\* The fill branch of rect: for i in range(height): self.hline(x, y + i, ...)
RECURSIVE RectFillFrom(_, _, _, _, _, _, _)
RectFillFrom(b, x, y, width, height, color, i) ==
    IF i >= height THEN b
    ELSE RectFillFrom(Hline(b, x, y + i, width, color), x, y, width, height, color, i + 1)

\* SSD1306.rect(x, y, width, height, color, fill)
Rect(b, x, y, width, height, color, fill) ==
    IF fill
    THEN RectFillFrom(b, x, y, width, height, color, 0)
    ELSE LET top == Hline(b, x, y, width, color)
             bottom == Hline(top, x, y + height - 1, width, color)
             left == Vline(bottom, x, y, height, color)
         IN Vline(left, x + width - 1, y, height, color)

\* font_data of SSD1306.text: five column bytes per character, bit 0 on top.
FontData ==
       (" " :> <<0, 0, 0, 0, 0>>)
    @@ ("0" :> <<62, 81, 73, 69, 62>>)
    @@ ("1" :> <<0, 65, 127, 64, 0>>)
    @@ ("2" :> <<114, 73, 73, 73, 70>>)
    @@ ("3" :> <<34, 73, 73, 73, 54>>)
    @@ ("4" :> <<15, 8, 8, 8, 126>>)
    @@ ("5" :> <<39, 69, 69, 69, 57>>)
    @@ ("6" :> <<60, 74, 73, 73, 48>>)
    @@ ("7" :> <<65, 33, 17, 9, 7>>)
    @@ ("8" :> <<54, 73, 73, 73, 54>>)
    @@ ("9" :> <<6, 73, 73, 41, 30>>)
    @@ ("A" :> <<126, 9, 9, 9, 126>>)
    @@ ("B" :> <<127, 73, 73, 73, 54>>)
    @@ ("C" :> <<62, 65, 65, 65, 34>>)
    @@ ("D" :> <<127, 65, 65, 65, 62>>)
    @@ ("E" :> <<127, 73, 73, 73, 65>>)
    @@ ("F" :> <<127, 9, 9, 9, 1>>)
    @@ ("G" :> <<62, 65, 73, 73, 50>>)
    @@ ("H" :> <<127, 8, 8, 8, 127>>)
    @@ ("I" :> <<0, 65, 127, 65, 0>>)
    @@ ("J" :> <<32, 64, 65, 63, 1>>)
    @@ ("K" :> <<127, 8, 20, 34, 65>>)
    @@ ("L" :> <<127, 64, 64, 64, 64>>)
    @@ ("M" :> <<127, 2, 4, 2, 127>>)
    @@ ("N" :> <<127, 4, 8, 16, 127>>)
    @@ ("O" :> <<62, 65, 65, 65, 62>>)
    @@ ("P" :> <<127, 9, 9, 9, 6>>)
    @@ ("Q" :> <<62, 65, 81, 33, 94>>)
    @@ ("R" :> <<127, 9, 25, 41, 70>>)
    @@ ("S" :> <<38, 73, 73, 73, 50>>)
    @@ ("T" :> <<1, 1, 127, 1, 1>>)
    @@ ("U" :> <<63, 64, 64, 64, 63>>)
    @@ ("V" :> <<31, 32, 64, 32, 31>>)
    @@ ("W" :> <<127, 32, 16, 32, 127>>)
    @@ ("X" :> <<99, 20, 8, 20, 99>>)
    @@ ("Y" :> <<7, 8, 112, 8, 7>>)
    @@ ("Z" :> <<97, 81, 73, 69, 67>>)
    @@ (":" :> <<0, 54, 54, 0, 0>>)
    @@ ("." :> <<0, 96, 96, 0, 0>>)
    @@ ("-" :> <<8, 8, 8, 8, 8>>)

\* Mutation: the glyph columns read with bit 7 on top.
GlyphBitFlipped(col_data, bit_row) == BitAnd(col_data, 2 ^ (7 - bit_row)) # 0

\* col_data & (1 << bit_row)
GlyphBit(col_data, bit_row) == BitAnd(col_data, 2 ^ bit_row) # 0

\* The pixel calls the inner loops of text make for one glyph, in order:
\* for bit_col, col_data in enumerate(glyph): for bit_row in range(8):
\* if col_data & (1 << bit_row): pixel(current_x + bit_col, y + bit_row).
GlyphCalls(glyph, current_x, y) ==
    LET IsSet(n) == GlyphBit(glyph[(n \div 8) + 1], n % 8)
        drawn == SelectSeq(Range(8 * Len(glyph)), IsSet)
    IN [k \in 1..Len(drawn) |->
           <<current_x + (drawn[k] \div 8), y + (drawn[k] % 8)>>]

\* Mutation: the column advances only after a character that has a glyph.
RECURSIVE CurrentXGlyphOnly(_, _, _)
CurrentXGlyphOnly(string, x, k) ==
    IF k = 0 THEN x
    ELSE CurrentXGlyphOnly(string, x, k - 1)
            + (IF string[k] \in DOMAIN FontData THEN CHAR_ADVANCE ELSE 0)

\* current_x after the first k characters of the string: current_x = x,
\* then current_x += 6 at the end of every iteration.
RECURSIVE CurrentX(_, _, _)
CurrentX(string, x, k) ==
    IF k = 0 THEN x
    ELSE CurrentX(string, x, k - 1) + CHAR_ADVANCE

\* The pixel calls text makes for the first k characters of the string;
\* a character without a glyph makes none.
RECURSIVE TextCalls(_, _, _, _)
TextCalls(string, x, y, k) ==
    IF k = 0 THEN <<>>
    ELSE LET current_x == CurrentX(string, x, k - 1)
         IN TextCalls(string, x, y, k - 1) \o
               (IF string[k] \in DOMAIN FontData
                THEN GlyphCalls(FontData[string[k]], current_x, y)
                ELSE <<>>)

\* SSD1306.text(string, x, y, color); a string is a sequence of characters.
Text(b, string, x, y, color) ==
    LET calls == TextCalls(string, x, y, Len(string))
    IN PixelRun(b, calls, 1, Len(calls), color)

\* The initialisation sequence of init_display.
InitCommands ==
    <<DISPLAY_OFF, 213, 128, 168, 63, 211, 0, SET_START_LINE, 141, 20, 32, 0,
      161, 200, 218, 18, CONTRAST, 207, 217, 241, 219, 64,
      ENTIRE_ON, NORMAL, DISPLAY_ON>>

\* Mutation: commands framed with the data control byte.
WriteCmdAsData(cmd) == <<64>> \o cmd

\* write_cmd(cmd): one I2C frame, control byte 0x00 then the command bytes.
WriteCmd(cmd) == <<0>> \o cmd

\* write_data(data): one I2C frame, control byte 0x40 then the data bytes.
WriteData(data) == <<64>> \o data

\* Mutation: the page slice starts one byte late.
PageFramesShifted(b, page) ==
    << WriteCmd(<<BitOr(SETPAGE, page)>>), WriteCmd(<<0>>), WriteCmd(<<16>>),
       WriteData([i \in 1..FbWidth |->
                    IF page * FbWidth + i + 1 \in DOMAIN b
                    THEN b[page * FbWidth + i + 1] ELSE 0]) >>

\* The body of show's loop for one page: SETPAGE | page, column start
\* 0x00 and 0x10, then self.buf[page_start:page_end].
PageFrames(b, page) ==
    LET page_start == page * FbWidth
        page_end == page_start + FbWidth
    IN << WriteCmd(<<BitOr(SETPAGE, page)>>), WriteCmd(<<0>>), WriteCmd(<<16>>),
          WriteData(SubSeq(b, page_start + 1, page_end)) >>

\* SSD1306.show(): the frames written, for page in range(self.pages).
RECURSIVE ShowFrom(_, _)
ShowFrom(b, page) ==
    IF page >= Pages THEN <<>>
    ELSE PageFrames(b, page) \o ShowFrom(b, page + 1)

Show(b) == ShowFrom(b, 0)

\* ------------------------------------------------------------------
\* The switch / poll-loop / display system
\* ------------------------------------------------------------------
\* State when main() enters its loop: Display() succeeded or failed,
\* show_welcome ran in the main context, SwitchHandler.__init__ ran.
InitSwitch ==
    /\ now = 0
    /\ advances = 0
    /\ last_press_time = [s \in SWITCH_PINS |-> 0]
    /\ states = [s \in SWITCH_PINS |-> FALSE]
    /\ accept_real = [s \in SWITCH_PINS |-> -1]
    /\ accept_gap = [s \in SWITCH_PINS |-> -1]
    /\ last_display_update = 0
    /\ pc = "poll"
    /\ active_keys = {}
    /\ slept = 0
    /\ display_initialized \in BOOLEAN
    /\ fb = IF display_initialized THEN "welcome" ELSE "none"
    /\ fb_ctx = IF display_initialized THEN "poll" ELSE "none"
    /\ bus_ctx = IF display_initialized THEN "poll" ELSE "none"
    /\ ev = NoEvent
    /\ EncoderConstructed
    /\ encoder_value = 0
    /\ enabled = FALSE /\ keyboard = FALSE
    /\ has_send = FALSE /\ has_write = FALSE
    /\ hid_call = NoCall
    /\ NoDriver

NextSwitch ==
    \/ SwitchIrq
    \/ PollCheck
    \/ PollShow
    \/ PollReset
    \/ PollWake
    \/ AdvanceSwitch

SpecSwitch == InitSwitch /\ [][NextSwitch]_vars

\* ------------------------------------------------------------------
\* main()'s try / except / finally around the loop
\* ------------------------------------------------------------------
\* Positions of main() inside `while True`.
LoopPcs == {"poll", "show", "reset", "sleep"}

\* What the exception raised inside the loop is an instance of.
FaultKinds == {"KeyboardInterrupt", "Exception"}

\* What the i2c.writeto calls of one flush do: all succeed ("ok"), or one
\* of them raises OSError ("err").
BusOutcomes == {"ok", "err"}

\* The finally clause: `if display and display.initialized: display.clear()`.
\* oled.clear() zeroes the buffer and then flushes it; nothing catches
\* what the flush raises.
FinallyClear(o) ==
    IF display_initialized
    THEN /\ fb' = "blank"
         /\ fb_ctx' = "poll"
         /\ bus_ctx' = "poll"
         /\ pc' = IF o = "ok" THEN "done" ELSE "raised"
    ELSE /\ UNCHANGED <<fb, fb_ctx, bus_ctx>>
         /\ pc' = "done"

\* An exception is raised inside the loop: the matching except clause
\* prints, the finally clause runs, and main() returns ("done") or the
\* exception of the finally clause leaves main() ("raised").
LoopFault ==
    /\ pc \in LoopPcs
    /\ \E e \in FaultKinds, o \in BusOutcomes :
         /\ FinallyClear(o)
         /\ ev' = [kind |-> "fault", exc |-> e, at |-> pc,
                   flushed |-> (display_initialized /\ o = "ok")]
    /\ UNCHANGED <<now, advances, switchVars, last_display_update, active_keys,
                   slept, display_initialized, pinVars, encVars, encoder_value,
                   hidVars, fbVars, hid_call>>

\* The switch system with the loop's exception handling; the interrupt
\* handlers stay registered after main() has ended.
NextMain ==
    \/ NextSwitch
    \/ LoopFault

SpecMain == InitSwitch /\ [][NextMain]_vars

\* ------------------------------------------------------------------
\* The Display wrapper inside the running system: besides what main()
\* does with it, any of its five operations called from the main context
\* ------------------------------------------------------------------
\* One call of a Display operation; op is the operation's effect.
DisplayCall(name, op) ==
    /\ op
    /\ ev' = [kind |-> "display", op |-> name]
    /\ UNCHANGED <<now, advances, switchVars, pollVars, display_initialized,
                   pinVars, encVars, encoder_value, hidVars, fbVars, hid_call>>

CallShowWelcome == DisplayCall("show_welcome", ShowWelcome("poll"))

CallShowStatus == DisplayCall("show_status", ShowStatus("poll"))

CallShowDebugInfo == DisplayCall("show_debug_info", ShowDebugInfo("poll"))

CallShowKeyPress == DisplayCall("show_key_press", ShowKeyPress("poll"))

CallClear == DisplayCall("clear", DisplayClear("poll"))

\* Display.__init__ has run: the driver was constructed (its buffer is
\* blank and its init sequence went over the bus) or it raised.
InitDisplay ==
    /\ now = 0
    /\ advances = 0
    /\ last_press_time = [s \in SWITCH_PINS |-> 0]
    /\ states = [s \in SWITCH_PINS |-> FALSE]
    /\ accept_real = [s \in SWITCH_PINS |-> -1]
    /\ accept_gap = [s \in SWITCH_PINS |-> -1]
    /\ last_display_update = 0
    /\ pc = "poll"
    /\ active_keys = {}
    /\ slept = 0
    /\ display_initialized \in BOOLEAN
    /\ fb = IF display_initialized THEN "blank" ELSE "none"
    /\ fb_ctx = IF display_initialized THEN "poll" ELSE "none"
    /\ bus_ctx = IF display_initialized THEN "poll" ELSE "none"
    /\ ev = NoEvent
    /\ EncoderConstructed
    /\ encoder_value = 0
    /\ enabled = FALSE /\ keyboard = FALSE
    /\ has_send = FALSE /\ has_write = FALSE
    /\ hid_call = NoCall
    /\ NoDriver

NextDisplay ==
    \/ CallShowWelcome
    \/ CallShowStatus
    \/ CallShowDebugInfo
    \/ CallShowKeyPress
    \/ CallClear
    \/ SwitchIrq
    \/ PollCheck
    \/ PollShow
    \/ PollReset
    \/ PollWake
    \/ AdvanceSwitch

SpecDisplay == InitDisplay /\ [][NextDisplay]_vars

\* ------------------------------------------------------------------
\* The encoder system (rotation, button, accumulator, volume dispatch)
\* ------------------------------------------------------------------
\* The parts the encoder handlers never touch, as main() leaves them.
SwitchesIdle ==
    /\ last_press_time = [s \in SWITCH_PINS |-> 0]
    /\ states = [s \in SWITCH_PINS |-> FALSE]
    /\ accept_real = [s \in SWITCH_PINS |-> -1]
    /\ accept_gap = [s \in SWITCH_PINS |-> -1]
    /\ last_display_update = 0
    /\ pc = "poll"
    /\ active_keys = {}
    /\ slept = 0
    /\ display_initialized = FALSE
    /\ fb = "none" /\ fb_ctx = "none" /\ bus_ctx = "none"

\* A disabled dispatcher is never entered by on_encoder_rotate, and write()
\* is reached only when the device has no send(): the other transport
\* configurations behave as one of these four here.
InitEnc ==
    /\ now = 0
    /\ advances = 0
    /\ SwitchesIdle
    /\ NoDriver
    /\ EncoderConstructed
    /\ encoder_value = 0
    /\ MediaControlConstructed
    /\ enabled = keyboard
    /\ has_send => ~has_write
    /\ ev = NoEvent

NextEnc ==
    \/ HandleRotation
    \/ DtChange
    \/ ButtonIrq
    \/ ButtonRelease
    \/ AdvanceEnc

SpecEnc == InitEnc /\ [][NextEnc]_vars

\* ------------------------------------------------------------------
\* All interrupt sources together: the switches, CLK and SW
\* ------------------------------------------------------------------
\* Idle periods between edges, in ms: inside every debounce window, and
\* outside every one of them.
StepsIrq == {1, BUTTON_DEBOUNCE_TIME}

AdvanceIrq ==
    /\ advances < MaxIrqAdvances
    /\ \E d \in StepsIrq : Advance(d)

NextIrq ==
    \/ SwitchIrq
    \/ HandleRotation
    \/ DtChange
    \/ ButtonIrq
    \/ ButtonRelease
    \/ AdvanceIrq

SpecIrq == InitSwitch /\ [][NextIrq]_vars

\* ------------------------------------------------------------------
\* The volume bar of show_status, for any accumulator value
\* ------------------------------------------------------------------
\* volume_bar_length = encoder_value % 20 (Python's %: the result has the
\* sign of the divisor).
VolumeBarLength(value) == value % 20

\* bar_width = int((volume_bar_length / 20.0) * 76); for the lengths 0..19
\* the float product truncates to the integer quotient.
BarWidth(volume_bar_length) == (volume_bar_length * 76) \div 20

\* self.oled.rect(40, 15, 80, 8, 1, fill=False)
OutlineRect == [x |-> 40, y |-> 15, width |-> 80, height |-> 8]

\* if bar_width > 0: self.oled.rect(42, 17, bar_width, 4, 1, fill=True)
BarRects(bar_width) ==
    IF bar_width > 0
    THEN <<[x |-> 42, y |-> 17, width |-> bar_width, height |-> 4]>>
    ELSE <<>>

EncoderValues == (-MaxEncoderValue)..MaxEncoderValue

\* update_display's display.show_status(encoder_value, active_keys): the
\* number printed after "VOL: " and the rectangles of the volume bar.
StatusCall ==
    /\ ev = NoEvent
    /\ ShowStatus("poll")
    /\ LET volume_bar_length == VolumeBarLength(encoder_value)
           bar_width == BarWidth(volume_bar_length)
       IN ev' = [kind |-> "status", shown |-> volume_bar_length,
                 bar_width |-> bar_width, outline |-> OutlineRect,
                 bars |-> BarRects(bar_width)]
    /\ UNCHANGED <<now, advances, switchVars, pollVars, display_initialized,
                   pinVars, encVars, encoder_value, hidVars, fbVars, hid_call>>

\* The accumulator holds any integer the encoder has counted to.
InitStatus ==
    /\ now = 0
    /\ advances = 0
    /\ last_press_time = [s \in SWITCH_PINS |-> 0]
    /\ states = [s \in SWITCH_PINS |-> FALSE]
    /\ accept_real = [s \in SWITCH_PINS |-> -1]
    /\ accept_gap = [s \in SWITCH_PINS |-> -1]
    /\ last_display_update = 0
    /\ pc = "show"
    /\ active_keys = {}
    /\ slept = 0
    /\ display_initialized = TRUE
    /\ fb = "welcome" /\ fb_ctx = "poll" /\ bus_ctx = "poll"
    /\ ev = NoEvent
    /\ EncoderConstructed
    /\ encoder_value \in EncoderValues
    /\ enabled = FALSE /\ keyboard = FALSE
    /\ has_send = FALSE /\ has_write = FALSE
    /\ hid_call = NoCall
    /\ NoDriver

NextStatus == StatusCall

SpecStatus == InitStatus /\ [][NextStatus]_vars

\* ------------------------------------------------------------------
\* The dispatcher on its own: any of the six actions, any transport
\* ------------------------------------------------------------------
HidCall(call) ==
    /\ hid_call' = call
    /\ UNCHANGED <<now, advances, switchVars, pollVars, displayVars,
                   pinVars, encVars, encoder_value, hidVars, fbVars, ev>>

CallVolumeUp == \E o \in TransportOutcomes : HidCall(VolumeUp(o))

CallVolumeDown == \E o \in TransportOutcomes : HidCall(VolumeDown(o))

CallVolumeMute == \E o \in TransportOutcomes : HidCall(VolumeMute(o))

CallPlayPause == \E o \in TransportOutcomes : HidCall(PlayPause(o))

CallNextTrack == \E o \in TransportOutcomes : HidCall(NextTrack(o))

CallPrevTrack == \E o \in TransportOutcomes : HidCall(PrevTrack(o))

InitHid ==
    /\ now = 0
    /\ advances = 0
    /\ SwitchesIdle
    /\ NoDriver
    /\ EncoderConstructed
    /\ encoder_value = 0
    /\ MediaControlConstructed
    /\ ev = NoEvent

NextHid ==
    \/ CallVolumeUp
    \/ CallVolumeDown
    \/ CallVolumeMute
    \/ CallPlayPause
    \/ CallNextTrack
    \/ CallPrevTrack

SpecHid == InitHid /\ [][NextHid]_vars

\* ------------------------------------------------------------------
\* The SSD1306 driver on its own: construction, then any operations
\* ------------------------------------------------------------------
\* Arguments the drawing operations are called with: in range, on the
\* borders, and outside the panel on every side.
Colors == {0, 1}

PixelPoints ==
    {<<0, 0>>, <<2, 9>>, <<FbWidth - 1, FbHeight - 1>>,
     <<-1, 8>>, <<0, -1>>, <<FbWidth, 0>>, <<0, FbHeight>>}

HlineArgs == {<<-1, 0, FbWidth + 2>>, <<1, 8, 2>>}

VlineArgs == {<<0, -1, FbHeight + 2>>, <<FbWidth - 1, 6, 3>>}

\* x, y, width, height, fill
RectArgs == {<<-1, -1, 3, 3, FALSE>>, <<FbWidth - 2, 6, 4, 4, TRUE>>}

\* string, x, y
TextArgs ==
    {<< <<"0">>, 0, 0 >>,
     << <<"?", "0">>, -CHAR_ADVANCE, 5 >>,
     << <<"1", "0">>, -3, -2 >>}

\* One driver operation: the buffer it leaves, the frames it writes, and
\* the number of drawing operations since the buffer was uniform.
DriverStep(op, new_buf, frames, new_draws) ==
    /\ buf # <<>>
    /\ new_draws <= MaxDraws
    /\ buf' = new_buf
    /\ bus' = frames
    /\ bus_first' = IF bus_first = <<>> /\ frames # <<>> THEN frames[1] ELSE bus_first
    /\ fb_op' = [op EXCEPT !.before = buf]
    /\ draws' = new_draws
    /\ UNCHANGED <<now, advances, switchVars, pollVars, displayVars,
                   pinVars, encVars, encoder_value, hidVars, hid_call, ev>>

\* SSD1306.__init__: the blank buffer, then init_display's single frame.
DriverConstruct ==
    /\ buf = <<>>
    /\ buf' = BlankBuffer
    /\ bus' = <<WriteCmd(InitCommands)>>
    /\ bus_first' = IF bus_first = <<>> THEN WriteCmd(InitCommands) ELSE bus_first
    /\ fb_op' = [name |-> "init", before |-> buf]
    /\ draws' = 0
    /\ UNCHANGED <<now, advances, switchVars, pollVars, displayVars,
                   pinVars, encVars, encoder_value, hidVars, hid_call, ev>>

DriverShow == DriverStep([name |-> "show", before |-> <<>>], buf, Show(buf), draws)

\* SSD1306.clear(): zero the buffer, then show().
DriverClear ==
    DriverStep([name |-> "clear", before |-> <<>>], BlankBuffer, Show(BlankBuffer), 0)

\* SSD1306.fill(color): fill the buffer, then show().
DriverFill ==
    \E color \in Colors :
        DriverStep([name |-> "fill", color |-> color, before |-> <<>>],
                   FilledBuffer(color), Show(FilledBuffer(color)), 0)

DriverPixel ==
    \E p \in PixelPoints, state \in Colors :
        DriverStep([name |-> "pixel", x |-> p[1], y |-> p[2], state |-> state,
                    follows_set |-> (/\ fb_op.name = "pixel"
                                     /\ fb_op.x = p[1] /\ fb_op.y = p[2]
                                     /\ fb_op.state = 1),
                    before |-> <<>>],
                   Pixel(buf, p[1], p[2], state), <<>>, draws + 1)

DriverHline ==
    \E a \in HlineArgs, color \in Colors :
        DriverStep([name |-> "hline", x |-> a[1], y |-> a[2], width |-> a[3],
                    height |-> 1, color |-> color, before |-> <<>>],
                   Hline(buf, a[1], a[2], a[3], color), <<>>, draws + 1)

DriverVline ==
    \E a \in VlineArgs, color \in Colors :
        DriverStep([name |-> "vline", x |-> a[1], y |-> a[2], width |-> 1,
                    height |-> a[3], color |-> color, before |-> <<>>],
                   Vline(buf, a[1], a[2], a[3], color), <<>>, draws + 1)

DriverRect ==
    \E a \in RectArgs, color \in Colors :
        DriverStep([name |-> "rect", x |-> a[1], y |-> a[2], width |-> a[3],
                    height |-> a[4], color |-> color, fill |-> a[5],
                    before |-> <<>>],
                   Rect(buf, a[1], a[2], a[3], a[4], color, a[5]), <<>>, draws + 1)

DriverText ==
    \E a \in TextArgs, color \in Colors :
        DriverStep([name |-> "text", string |-> a[1], x |-> a[2], y |-> a[3],
                    color |-> color, before |-> <<>>],
                   Text(buf, a[1], a[2], a[3], color), <<>>, draws + 1)

\* No driver object yet; the rest of the system is idle.
InitDriver ==
    /\ now = 0
    /\ advances = 0
    /\ SwitchesIdle
    /\ NoDriver
    /\ EncoderConstructed
    /\ encoder_value = 0
    /\ enabled = FALSE /\ keyboard = FALSE
    /\ has_send = FALSE /\ has_write = FALSE
    /\ hid_call = NoCall
    /\ ev = NoEvent

NextDriver ==
    \/ DriverConstruct
    \/ DriverShow
    \/ DriverClear
    \/ DriverFill
    \/ DriverPixel
    \/ DriverHline
    \/ DriverVline
    \/ DriverRect
    \/ DriverText

SpecDriver == InitDriver /\ [][NextDriver]_vars

\* ------------------------------------------------------------------
\* Properties
\* ------------------------------------------------------------------
\* Elapsed ticks since `last` as the unsigned modular difference of the
\* wrapping counter.
ModularElapsed(last) == (Ticks - last) % TicksPeriod

\* C1: every switch, encoder-channel or encoder-button interrupt is accepted,
\* and its last-accepted tick set to the current tick, iff the modular
\* difference (now_tick - last_accepted_tick) is >= the threshold, also when
\* the counter wrapped between the two edges.
C1_DebounceModular ==
    [][/\ ev'.kind = "switch" =>
            /\ ev'.accepted <=>
                 (ModularElapsed(last_press_time[ev'.name]) >= DEBOUNCE_TIME)
            /\ ev'.accepted => last_press_time'[ev'.name] = Ticks
       /\ ev'.kind = "rotation" =>
            /\ ev'.accepted <=>
                 (ModularElapsed(last_interrupt_time) >= ENCODER_DEBOUNCE_TIME)
            /\ ev'.accepted => last_interrupt_time' = Ticks
       /\ ev'.kind = "button" =>
            /\ ev'.accepted <=>
                 (ModularElapsed(button_press_time) >= BUTTON_DEBOUNCE_TIME)
            /\ ev'.accepted => button_press_time' = Ticks
      ]_vars

\* C2: any two presses of one switch accepted by _handle_switch_press are
\* at least DEBOUNCE_TIME ms apart (at most one accepted edge, hence one
\* callback, per threshold window).
C2_AcceptedPressesApart ==
    \A s \in SWITCH_PINS : accept_gap[s] = -1 \/ accept_gap[s] >= DEBOUNCE_TIME

\* Two presses of one switch were accepted exactly DEBOUNCE_TIME apart.
C2_Witness == \E s \in SWITCH_PINS : accept_gap[s] = DEBOUNCE_TIME

\* C3: every switch flag cleared by reset_states was in the active-keys list
\* read for show_status in the same poll cycle.
C3_ResetOnlyRendered ==
    [][\A s \in SWITCH_PINS : (states[s] /\ ~states'[s]) => s \in active_keys]_vars

\* C4: no interrupt handler, and no callback invoked from one, writes the
\* framebuffer or the display bus; only the poll-loop context does.
C4_DisplayOwnedByPollLoop == fb_ctx # "irq" /\ bus_ctx # "irq"

\* C5: each falling edge of channel A that passes the rotation debounce
\* changes the accumulator by exactly +1 or -1, whatever earlier edges the
\* debounce filter rejected.
C5_AcceptedFallingEdgeCounts ==
    [][(ev'.kind = "rotation" /\ ev'.accepted /\ ev'.edge = "falling")
          => (encoder_value' - encoder_value) \in {1, -1}]_vars

\* C6: for an interrupt passing the debounce, sampled A = 0 with stored A = 1
\* invokes the rotate callback exactly once, with +1 when B = 1 and with -1
\* when B = 0; sampled A equal to the stored A, or A = 1, invokes nothing.
C6_QuadratureDecode ==
    [][(ev'.kind = "rotation" /\ ev'.accepted) =>
          /\ (clk' = 0 /\ last_clk = 1 /\ dt = 1) =>
                (ev'.calls = <<1>> /\ encoder_value' = encoder_value + 1)
          /\ (clk' = 0 /\ last_clk = 1 /\ dt = 0) =>
                (ev'.calls = <<-1>> /\ encoder_value' = encoder_value - 1)
          /\ (clk' = last_clk \/ clk' = 1) =>
                (ev'.calls = <<>> /\ encoder_value' = encoder_value)
      ]_vars

\* An accepted falling edge with B low was decoded counter-clockwise.
C6_Witness ==
    /\ ev.kind = "rotation"
    /\ ev.accepted
    /\ ev.calls = <<-1>>
    /\ clk = 0 /\ dt = 0

\* C7 (as claimed): the accumulator changes only by +1 or -1 and only as
\* the effect of an accepted rotation event; no other handler changes it.
C7_OnlyRotationChanges ==
    [][encoder_value' # encoder_value =>
          /\ (encoder_value' - encoder_value) \in {1, -1}
          /\ ev'.kind = "rotation"
          /\ ev'.accepted
      ]_vars

\* C7 (amended): the accumulator changes by +1 or -1 as the effect of an
\* accepted rotation event, or is set to 0 by an accepted encoder-button
\* press that reads low; nothing else, and no rejected event, changes it.
C7_RotationOrButtonReset ==
    [][encoder_value' # encoder_value =>
          \/ /\ (encoder_value' - encoder_value) \in {1, -1}
             /\ ev'.kind = "rotation"
             /\ ev'.accepted
          \/ /\ encoder_value' = 0
             /\ ev'.kind = "button"
             /\ ev'.accepted
             /\ sw' = 0
      ]_vars

\* An accepted button press reset a non-zero accumulator.
C7_Witness ==
    /\ ev.kind = "button"
    /\ ev.accepted
    /\ ev.before # 0
    /\ encoder_value = 0

\* C8: a switch flag becomes true only inside an accepted (debounce-passing)
\* press of that switch, and becomes false only in reset_states called by
\* update_display; the detector never clears a flag.
C8_FlagTransitions ==
    [][\A s \in SWITCH_PINS :
          /\ (~states[s] /\ states'[s]) =>
                /\ ev'.kind = "switch"
                /\ ev'.name = s
                /\ ev'.accepted
                /\ Ticks - last_press_time[s] >= DEBOUNCE_TIME
          /\ (states[s] /\ ~states'[s]) =>
                /\ pc = "reset"
                /\ pc' = "sleep"
                /\ ev'.kind = "none"
      ]_vars

\* A flag set by an accepted press has been cleared again by the poll loop.
C8_Witness ==
    \E s \in SWITCH_PINS : accept_real[s] >= 0 /\ ~states[s] /\ pc = "sleep"

\* The usage codes the six actions are to send.
ExpectedCode ==
    [volume_up |-> 233, volume_down |-> 234, volume_mute |-> 226,
     play_pause |-> 205, next_track |-> 181, prev_track |-> 182]

\* The transport delivers: the primitive the device has succeeds both times.
TransportWorks(o) ==
    \/ has_send /\ o.s1 = "ok" /\ o.s2 = "ok"
    \/ ~has_send /\ has_write /\ o.w1 = "ok" /\ o.w2 = "ok"

ReportsOf(writes) == [i \in 1..Len(writes) |-> writes[i].report]

\* C9: with a working transport each of the six actions writes exactly the
\* press report [code, 0, 0] and then the release report [0, 0, 0] and
\* returns True; with the dispatcher disabled it writes nothing and returns
\* False.
C9_ActionReports ==
    hid_call.action # "none" =>
        /\ (enabled /\ TransportWorks(hid_call.outcome)) =>
              /\ hid_call.ret = TRUE
              /\ ReportsOf(hid_call.writes) =
                    << <<ExpectedCode[hid_call.action], 0, 0>>, <<0, 0, 0>> >>
        /\ ~enabled =>
              /\ hid_call.ret = FALSE
              /\ hid_call.writes = <<>>

\* play/pause went out over a working send(): press 0xCD, then release.
C9_Witness ==
    /\ hid_call.action = "play_pause"
    /\ enabled
    /\ has_send
    /\ hid_call.ret = TRUE
    /\ Len(hid_call.writes) = 2

\* C10: an action method that fails to deliver its reports returns False;
\* it returns True only if both the press and the release report were
\* written.
C10_FailureReturnsFalse ==
    (hid_call.action # "none" /\ hid_call.ret = TRUE) =>
        ReportsOf(hid_call.writes) =
            << <<ExpectedCode[hid_call.action], 0, 0>>, <<0, 0, 0>> >>

\* C11: for every action call and every failure pattern of the transport,
\* the reports written (by send or by the fallback write) are either none
\* or exactly one press report followed by one all-zero release report: a
\* press is never left without its release and never written twice, and
\* the fallback write is used only when the device has no send.
C11_PressThenRelease ==
    hid_call.action # "none" =>
        /\ \/ hid_call.writes = <<>>
           \/ ReportsOf(hid_call.writes) =
                 << <<ExpectedCode[hid_call.action], 0, 0>>, <<0, 0, 0>> >>
        /\ \A i \in 1..Len(hid_call.writes) :
              hid_call.writes[i].via = "write" => ~has_send

\* Bit of pixel (px, py) in buffer b, by position: byte (py div 8) * width
\* + px, bit py mod 8.
BitAt(b, px, py) == (b[(py \div 8) * FbWidth + px + 1] \div (2 ^ (py % 8))) % 2

InPanel(px, py) == px \in Columns /\ py \in Rows

\* C12: show() writes, for each page p = 0 .. height/8 - 1 in ascending
\* order, the command frames [0x00, 0xB0 | p], [0x00, 0x00], [0x00, 0x10]
\* and then one data frame [0x40] + the width bytes of page p; it writes
\* nothing else and leaves the buffer unchanged.
C12_ShowFrames ==
    fb_op.name = "show" =>
        /\ buf = fb_op.before
        /\ Len(bus) = 4 * FbPages
        /\ \A p \in 0..(FbPages - 1) :
              /\ bus[4 * p + 1] = <<0, 176 + p>>
              /\ bus[4 * p + 2] = <<0, 0>>
              /\ bus[4 * p + 3] = <<0, 16>>
              /\ bus[4 * p + 4] = <<64>> \o [i \in 1..FbWidth |-> buf[p * FbWidth + i]]

\* show() flushed a buffer whose pages differ.
C12_Witness ==
    /\ fb_op.name = "show"
    /\ buf[1] # buf[FbWidth + 1]
    /\ \E i \in DOMAIN buf : buf[i] \notin {0, 255}

\* C13: the first frame on the bus after the driver is constructed is the
\* init sequence 0xAE, 0xD5 0x80, 0xA8 0x3F, 0xD3 0x00, 0x40, 0x8D 0x14,
\* 0x20 0x00, 0xA1, 0xC8, 0xDA 0x12, 0x81 0xCF, 0xD9 0xF1, 0xDB 0x40, 0xA4,
\* 0xA6, 0xAF behind the control byte 0x00; no page-select or data frame
\* precedes it.
C13_InitSequenceFirst ==
    /\ bus_first # <<>> =>
          bus_first = <<0, 174, 213, 128, 168, 63, 211, 0, 64, 141, 20, 32, 0,
                        161, 200, 218, 18, 129, 207, 217, 241, 219, 64,
                        164, 166, 175>>
    /\ fb_op.name = "init" => bus = <<bus_first>>
    /\ buf # <<>> => bus_first # <<>>

\* The driver was constructed and a later flush selected page 0.
C13_Witness ==
    /\ fb_op.name = "show"
    /\ bus[1] = <<0, 176>>
    /\ Len(bus_first) = 26

\* A pixel call with state 0 directly follows the call with state 1 at the
\* same in-range coordinates.
RoundTripStep ==
    /\ fb_op.name = "pixel"
    /\ fb_op.state = 1
    /\ InPanel(fb_op.x, fb_op.y)
    /\ fb_op'.name = "pixel"
    /\ fb_op'.state = 0
    /\ fb_op'.x = fb_op.x
    /\ fb_op'.y = fb_op.y

\* C14 (as claimed): for every in-range (x, y) and every buffer content,
\* pixel(x, y, 1) followed by pixel(x, y, 0) leaves the byte holding the
\* pixel at the value it had before the two calls.
C14_RoundTripRestores ==
    [][RoundTripStep =>
          LET i == (fb_op.y \div 8) * FbWidth + fb_op.x + 1
          IN buf'[i] = fb_op.before[i]
      ]_vars

\* C14 (amended): pixel(x, y, 1) followed by pixel(x, y, 0) leaves the
\* pixel's bit clear and every other bit of the buffer as it was before
\* the two calls; the byte has its earlier value iff the pixel was clear.
C14_RoundTripClears ==
    [][RoundTripStep =>
          LET i == (fb_op.y \div 8) * FbWidth + fb_op.x + 1
              was == BitAt(fb_op.before, fb_op.x, fb_op.y)
          IN /\ buf'[i] = fb_op.before[i] - was * (2 ^ (fb_op.y % 8))
             /\ \A j \in DOMAIN buf' : j # i => buf'[j] = fb_op.before[j]
             /\ DOMAIN buf' = DOMAIN fb_op.before
      ]_vars

\* On a buffer filled with 0xFF, a pixel was set and then cleared: its
\* byte is left with that one bit clear.
C14_Witness ==
    /\ fb_op.name = "pixel"
    /\ fb_op.state = 0
    /\ fb_op.follows_set
    /\ InPanel(fb_op.x, fb_op.y)
    /\ draws = 2
    /\ buf[(fb_op.y \div 8) * FbWidth + fb_op.x + 1] = 255 - 2 ^ (fb_op.y % 8)

\* The rectangle of pixels a drawing operation is asked to cover.
InRegion(op, px, py) ==
    IF op.name = "text"
    THEN /\ px \in op.x..(op.x + 6 * Len(op.string) - 1)
         /\ py \in op.y..(op.y + 7)
    ELSE /\ px \in op.x..(op.x + op.width - 1)
         /\ py \in op.y..(op.y + op.height - 1)

\* C15: pixel(x, y, state) with 0 <= x < width and 0 <= y < height sets
\* (state 1) or clears (state 0) bit y mod 8 of byte (y div 8) * width + x
\* and no other bit; with any other coordinates, negative ones included, it
\* changes nothing.  hline, vline, rect and text change no bit outside the
\* part of their region that lies on the panel, and the buffer keeps its
\* length (height / 8) * width.
C15_PixelClipped ==
    /\ fb_op.name = "pixel" =>
          /\ \A px \in Columns, py \in Rows :
                BitAt(buf, px, py) =
                    IF px = fb_op.x /\ py = fb_op.y
                    THEN fb_op.state
                    ELSE BitAt(fb_op.before, px, py)
          /\ ~InPanel(fb_op.x, fb_op.y) => buf = fb_op.before
    /\ fb_op.name \in {"hline", "vline", "rect", "text"} =>
          \A px \in Columns, py \in Rows :
              BitAt(buf, px, py) # BitAt(fb_op.before, px, py)
                  => InRegion(fb_op, px, py)
    /\ buf # <<>> =>
          /\ Len(buf) = (FbHeight \div 8) * FbWidth
          /\ \A i \in DOMAIN buf : buf[i] \in 0..255

\* A rectangle reaching beyond the panel's corner was drawn and changed
\* the part of it that lies on the panel.
C15_Witness ==
    /\ fb_op.name = "rect"
    /\ fb_op.x < 0
    /\ fb_op.y < 0
    /\ buf # fb_op.before

\* C16: on a cleared buffer, text("0", 0, 0, 1) leaves bytes 0..4 of page 0
\* equal to 0x3E, 0x51, 0x49, 0x45, 0x3E and every other byte 0.
C16_GlyphZero ==
    (/\ fb_op.name = "text"
     /\ fb_op.string = <<"0">>
     /\ fb_op.x = 0 /\ fb_op.y = 0 /\ fb_op.color = 1
     /\ \A i \in DOMAIN fb_op.before : fb_op.before[i] = 0)
        => buf = [i \in 1..(FbPages * FbWidth) |->
                     IF i <= 5 THEN <<62, 81, 73, 69, 62>>[i] ELSE 0]

\* text("0", 0, 0, 1) has been drawn on a cleared buffer.
C16_Witness ==
    /\ fb_op.name = "text"
    /\ fb_op.string = <<"0">>
    /\ fb_op.x = 0 /\ fb_op.y = 0 /\ fb_op.color = 1
    /\ \A i \in DOMAIN fb_op.before : fb_op.before[i] = 0
    /\ buf[1] # 0

\* Pixel (px, py) lies on a set bit of the glyph of the k-th character,
\* that glyph placed with its left column at x + 6k (k counted from 0).
OnGlyph(op, px, py) ==
    \E k \in 0..(Len(op.string) - 1) :
        LET char == op.string[k + 1]
            col == px - (op.x + 6 * k)
            row == py - op.y
        IN /\ char \in DOMAIN FontData
           /\ col \in 0..4
           /\ row \in 0..7
           /\ (FontData[char][col + 1] \div (2 ^ row)) % 2 = 1

\* C17: text draws the k-th character of the string with its left column
\* at x + 6k whether or not the earlier characters have a glyph; a
\* character without a glyph changes no bit and still advances by 6.
C17_CharacterColumns ==
    fb_op.name = "text" =>
        \A px \in Columns, py \in Rows :
            BitAt(buf, px, py) =
                IF OnGlyph(fb_op, px, py)
                THEN fb_op.color
                ELSE BitAt(fb_op.before, px, py)

\* "?0" drawn from x = -6: "?" has no glyph, and "0" appeared at column 0.
C17_Witness ==
    /\ fb_op.name = "text"
    /\ fb_op.string = <<"?", "0">>
    /\ fb_op.x = -6
    /\ fb_op.color = 1
    /\ buf # fb_op.before
    /\ BitAt(buf, 1, fb_op.y) = 1

\* C18: a raw press of the encoder button (level low) arriving at least
\* 50 ms after the last edge the button debounce accepted invokes the
\* button callback, at any tick value; an edge arriving less than 50 ms
\* after an accepted one invokes nothing.  So two raw presses 10 ms apart
\* yield exactly one callback, and two callbacks are at least 50 ms apart.
C18_ButtonWindow ==
    [][ev'.kind = "button" =>
          /\ (sw' = 0 /\ now - button_accept_real >= BUTTON_DEBOUNCE_TIME)
                => ev'.called
          /\ (now - button_accept_real < BUTTON_DEBOUNCE_TIME)
                => (~ev'.accepted /\ ~ev'.called)
      ]_vars

\* C19: when display initialization failed, Display.initialized is false
\* and no Display operation (show_welcome, show_status, show_debug_info,
\* show_key_press, clear), no poll of update_display and no switch callback
\* writes the framebuffer or the bus; the switches and the poll loop keep
\* running.
C19_DisabledDisplayIsInert ==
    ~display_initialized =>
        (fb = "none" /\ fb_ctx = "none" /\ bus_ctx = "none")

\* With the display disabled: a press was accepted and flagged, a poll
\* passed its 500 ms check, and a Display operation has just been called.
C19_Witness ==
    /\ ~display_initialized
    /\ ev.kind = "display"
    /\ \E s \in SWITCH_PINS : states[s] /\ accept_real[s] >= 0
    /\ last_display_update > 0

\* C20: the blocking HID send (press report, 50 ms hold, release report)
\* runs only from the poll context: no step that serves an interrupt makes
\* a dispatcher call or spends a blocking delay.
C20_SendOnlyFromPollContext ==
    [][ev'.kind \in {"switch", "rotation", "button"} =>
          (hid_call'.action = "none" /\ now' = now)]_vars

\* C21: a switch flag that is true is reset by the poll loop once the
\* poll's 500 ms interval has elapsed, in every configuration, a disabled
\* display included: a poll pass that restarts the interval does not go
\* back to sleep with a flag still set.
C21_ElapsedPollResetsFlags ==
    [][(pc = "poll" /\ pc' = "sleep" /\ last_display_update' # last_display_update)
          => \A s \in SWITCH_PINS : ~states'[s]]_vars

\* C23: every rotation tick the decoder emits adds its direction to the
\* accumulator, with or without the HID transport; with the dispatcher
\* enabled it makes one dispatcher call, volume_up for +1 and volume_down
\* for -1, and with the dispatcher disabled it makes no dispatcher call and
\* no HID write.
C23_TickUpdatesAndDispatches ==
    [][(ev'.kind = "rotation" /\ ev'.calls # <<>>)
          => LET d == ev'.calls[1] IN
             /\ Len(ev'.calls) = 1
             /\ d \in {-1, 1}
             /\ encoder_value' = encoder_value + d
             /\ IF enabled
                THEN /\ hid_call'.action = (IF d = 1 THEN "volume_up" ELSE "volume_down")
                     /\ hid_call'.code = (IF d = 1 THEN VOLUME_UP ELSE VOLUME_DOWN)
                     /\ \A i \in 1..Len(hid_call'.writes) :
                           hid_call'.writes[i].report \in
                               {Report(hid_call'.code), ReleaseReport}
                ELSE hid_call' = NoCall]_vars

\* A -1 tick with the dispatcher enabled: volume_down pressed and released.
C23_Witness ==
    /\ ev.kind = "rotation"
    /\ ev.calls = <<-1>>
    /\ enabled
    /\ hid_call.action = "volume_down"
    /\ Len(hid_call.writes) = 2

\* C22: an exception raised inside the loop and caught by `except
\* Exception` ends the loop for good, main() returns without an exception
\* leaving it, and an initialized display has been blanked by then: buffer
\* all zero and flushed to the panel.
C22_FaultCaughtDisplayBlanked ==
    [][/\ (pc \notin LoopPcs => pc' \notin LoopPcs)
       /\ (ev'.kind = "fault" /\ ev'.exc = "Exception")
             => /\ pc \in LoopPcs
                /\ pc' = "done"
                /\ display_initialized => (fb' = "blank" /\ ev'.flushed)]_vars

\* C24: an interrupt whose debounce check fails is dropped and changes
\* nothing.  A switch edge leaves every switch's last-press tick and flag
\* alone and the key-press screen is not drawn; a CLK edge leaves
\* last_interrupt_time, last_clk, last_dt and the accumulator alone and makes
\* no callback_rotate call; an SW edge leaves button_press_time and the
\* accumulator alone and makes no callback_button call.
C24_RejectedEdgeChangesNothing ==
    [][/\ (ev'.kind = "switch"
            /\ Ticks - last_press_time[ev'.name] < DEBOUNCE_TIME)
          => /\ ~ev'.accepted
             /\ UNCHANGED <<last_press_time, states>>
             /\ UNCHANGED <<fb, fb_ctx, bus_ctx, encoder_value>>
       /\ (ev'.kind = "rotation"
            /\ Ticks - last_interrupt_time < ENCODER_DEBOUNCE_TIME)
          => /\ ~ev'.accepted
             /\ ev'.calls = <<>>
             /\ hid_call' = NoCall
             /\ UNCHANGED <<last_interrupt_time, last_clk, last_dt, encoder_value>>
       /\ (ev'.kind = "button"
            /\ Ticks - button_press_time < BUTTON_DEBOUNCE_TIME)
          => /\ ~ev'.accepted
             /\ ~ev'.called
             /\ UNCHANGED <<button_press_time, encoder_value>>]_vars

\* Edges of all three kinds have been dropped after accepted ones: a flag
\* is set, the accumulator is not zero, and the last edge, on CLK, was
\* dropped within the window of an accepted one.
C24_Witness ==
    /\ ev.kind = "rotation"
    /\ ~ev.accepted
    /\ last_interrupt_time > 0
    /\ encoder_value # 0
    /\ \E s \in SWITCH_PINS : states[s] /\ last_press_time[s] > 0

\* C25: whatever integer the accumulator holds, show_status prints the
\* value clamped to 0..19 (0 below 0, 19 above 19), and the filled bar it
\* draws lies inside the 80-pixel outline rectangle.
C25_StatusShowsClampedValue ==
    ev.kind = "status"
        => /\ ev.shown = (IF encoder_value < 0 THEN 0
                          ELSE IF encoder_value > 19 THEN 19
                          ELSE encoder_value)
           /\ \A i \in 1..Len(ev.bars) :
                 /\ ev.bars[i].x >= ev.outline.x
                 /\ ev.bars[i].x + ev.bars[i].width <= ev.outline.x + ev.outline.width
                 /\ ev.bars[i].y >= ev.outline.y
                 /\ ev.bars[i].y + ev.bars[i].height <= ev.outline.y + ev.outline.height

====
